---- MODULE Spec2Model ----
(***************************************************************************)
(* Model of the todo backend: JWT identity resolution                      *)
(* (app/core/security.py, app/core/dependencies.py) and the ownership      *)
(* scoped task endpoints (app/api/v1/tasks.py) over the users and tasks    *)
(* tables (app/models).                                                    *)
(***************************************************************************)
EXTENDS Integers, Sequences, FiniteSets, TLC

\* ---------------------------------------------------------------- bounds
MaxTasks == 2
MaxTime == 1
MaxFields == 2
MaxPage == 2
MaxPageSize == 2
MaxOps == 4
MaxFilters == 2

\* ------------------------------------------------------------ value sets
Null == "NULL"
Absent == "ABSENT"
NoTime == -1
AbsentTime == -2
DayLen == 2

Emails == {"a@x", "b@x"}
InitUsers == {"a@x", "b@x"}
Titles == {"t1", "t2"}
Descriptions == {"d1"}
DueDates == {1}
OwnerLike == {"b@x"}
PriorityEnum == {"low", "medium", "high"}
Days == 0..((MaxTime + 1) \div DayLen)
FarExp == MaxTime + 1

\* A bearer token: signature validity, exp claim, and the sub / email claims.
Tokens ==
    {[sig |-> "good", exp |-> FarExp, sub |-> Absent, email |-> "a@x"],
     [sig |-> "good", exp |-> MaxTime, sub |-> Absent, email |-> "b@x"],
     [sig |-> "good", exp |-> FarExp, sub |-> "a@x", email |-> Absent],
     [sig |-> "good", exp |-> FarExp, sub |-> Absent, email |-> Absent],
     [sig |-> "bad", exp |-> FarExp, sub |-> Absent, email |-> "a@x"]}

VARIABLES users, tasks, nextId, now, nops, req, resp, tog, everAuthed,
          raised, sessions, engine, procs

vars == <<users, tasks, nextId, now, nops, req, resp, tog, everAuthed,
          raised, sessions, engine, procs>>

\* ------------------------------------------------------------- responses
\* A JSON body: the fields of the schema, and a user_email field, which no
\* schema declares and pydantic therefore drops.
NoBody == [title |-> Absent, description |-> Absent, priority |-> Absent,
           due_date |-> AbsentTime, is_completed |-> Absent, user_email |-> Absent]
NoQuery == [completed |-> Absent, priority |-> Absent, date_from |-> NoTime,
            date_to |-> NoTime, page |-> 0, page_size |-> 0]
NoReq == [kind |-> "none", token |-> [sig |-> "none", exp |-> 0, sub |-> Absent,
                                      email |-> Absent],
          id |-> 0, body |-> NoBody, query |-> NoQuery]
NoResp == [status |-> 0, code |-> "NONE", message |-> "", message_id |-> 0,
           tasks |-> <<>>, total_count |-> -1]

Request(kind, tok, id, body, query) ==
    [kind |-> kind, token |-> tok, id |-> id, body |-> body, query |-> query]

ErrorResp(status, code, message, mid) ==
    [status |-> status, code |-> code, message |-> message, message_id |-> mid,
     tasks |-> <<>>, total_count |-> -1]

TaskResp(t) ==
    [status |-> 200, code |-> "OK", message |-> "", message_id |-> 0,
     tasks |-> <<t>>, total_count |-> -1]

\* ------------------------------------------------------------ exceptions
\* An exception: its class, the status_code and detail an HTTPException
\* carries (str(exc) for the others), and the task id inside the detail.
NoExc == [cls |-> "none", status_code |-> 0, detail |-> "", detail_id |-> 0]

Exc(cls, status, detail, id) ==
    [cls |-> cls, status_code |-> status, detail |-> detail, detail_id |-> id]

TokenInvalidException(detail) == Exc("TokenInvalidException", 401, detail, 0)
TokenExpiredException(detail) == Exc("TokenExpiredException", 401, detail, 0)
UserNotFoundException(detail) == Exc("UserNotFoundException", 404, detail, 0)
TaskNotFoundException(detail, id) == Exc("TaskNotFoundException", 404, detail, id)
ValidationException(detail) == Exc("ValidationException", 422, detail, 0)
DatabaseException(detail) == Exc("DatabaseException", 500, detail, 0)

\* The classes derived from HTTPException in app/core/exceptions.py
DomainExceptions ==
    {"TokenInvalidException", "TokenExpiredException", "UserNotFoundException",
     "TaskNotFoundException", "ValidationException", "DatabaseException"}

\* type(exc).__mro__, without object
Mro(cls) ==
    CASE cls \in DomainExceptions ->
             <<cls, "HTTPException", "StarletteHTTPException", "Exception">>
      [] cls = "HTTPException" ->
             <<"HTTPException", "StarletteHTTPException", "Exception">>
      [] cls = "StarletteHTTPException" -> <<"StarletteHTTPException", "Exception">>
      [] cls = "Exception" -> <<"Exception">>
      [] OTHER -> <<cls, "Exception">>

\* The classes given to app.add_exception_handler, in that order.
Registered ==
    <<"TokenInvalidException", "TokenExpiredException", "UserNotFoundException",
      "TaskNotFoundException", "ValidationException", "DatabaseException",
      "StarletteHTTPException", "RequestValidationError", "Exception">>

IsRegistered(cls) == \E k \in 1..Len(Registered) : Registered[k] = cls

\* A dispatch in which the handler of the HTTP base class shadows its subclasses.
lookup_handler_BaseShadows(cls) ==
    IF \E k \in 1..Len(Mro(cls)) : Mro(cls)[k] = "StarletteHTTPException"
    THEN "StarletteHTTPException"
    ELSE "Exception"

\* The handler of the first class of the MRO that has one.
lookup_handler(cls) ==
    LET m == Mro(cls)
        k == CHOOSE i \in 1..Len(m) :
                 /\ IsRegistered(m[i])
                 /\ \A j \in 1..(i - 1) : ~IsRegistered(m[j])
    IN m[k]

token_invalid_exception_handler(exc) ==
    ErrorResp(401, "TOKEN_INVALID", exc.detail, exc.detail_id)

token_expired_exception_handler(exc) ==
    ErrorResp(401, "TOKEN_EXPIRED", exc.detail, exc.detail_id)

user_not_found_exception_handler(exc) ==
    ErrorResp(404, "USER_NOT_FOUND", exc.detail, exc.detail_id)

task_not_found_exception_handler(exc) ==
    ErrorResp(404, "TASK_NOT_FOUND", exc.detail, exc.detail_id)

validation_exception_handler(exc) ==
    ErrorResp(422, "VALIDATION_ERROR", exc.detail, exc.detail_id)

database_exception_handler(exc) ==
    ErrorResp(500, "DATABASE_ERROR", exc.detail, exc.detail_id)

http_exception_handler(exc) ==
    ErrorResp(exc.status_code, "HTTP_" \o ToString(exc.status_code),
              IF exc.detail = "" THEN "HTTP " \o ToString(exc.status_code) \o " error"
              ELSE exc.detail,
              exc.detail_id)

validation_error_handler(exc) ==
    ErrorResp(422, "REQUEST_VALIDATION_ERROR", "Request validation failed", 0)

\* A catch-all handler that passes str(exc) on.
general_exception_handler_Leaks(exc) ==
    ErrorResp(500, "INTERNAL_ERROR", exc.detail, exc.detail_id)

general_exception_handler(exc) ==
    ErrorResp(500, "INTERNAL_ERROR", "An internal error occurred", 0)

\* The response to an exception that leaves the endpoint or its dependencies.
Handle(exc) ==
    LET h == lookup_handler(exc.cls) IN
    CASE h = "TokenInvalidException" -> token_invalid_exception_handler(exc)
      [] h = "TokenExpiredException" -> token_expired_exception_handler(exc)
      [] h = "UserNotFoundException" -> user_not_found_exception_handler(exc)
      [] h = "TaskNotFoundException" -> task_not_found_exception_handler(exc)
      [] h = "ValidationException" -> validation_exception_handler(exc)
      [] h = "DatabaseException" -> database_exception_handler(exc)
      [] h = "StarletteHTTPException" -> http_exception_handler(exc)
      [] h = "RequestValidationError" -> validation_error_handler(exc)
      [] h = "Exception" -> general_exception_handler(exc)

\* raise TaskNotFoundException(detail=f"Task with id {task_id} not found")
TaskNotFoundExc(id) == TaskNotFoundException("Task with id not found", id)

TaskNotFoundResp(id) == Handle(TaskNotFoundExc(id))

\* sqlalchemy.exc.IntegrityError, raised by the commit of a null in a NOT NULL column
IntegrityError == Exc("IntegrityError", 0, "NOT NULL constraint failed", 0)

InternalErrorResp == Handle(IntegrityError)

\* ------------------------------------------------- token codec / resolver
\* decode_jwt: signature first, then the exp claim; yields the failure kind
\* or "ok" (the payload is then the token's claims).
\* A codec whose "except jwt.PyJWTError" comes first and takes the expiry too.
decode_jwt_ExceptOrder(tok, t) ==
    IF tok.sig # "good" \/ tok.exp <= t THEN "TOKEN_INVALID" ELSE "ok"

decode_jwt(tok, t) ==
    IF tok.sig # "good" THEN "TOKEN_INVALID"
    ELSE IF tok.exp <= t THEN "TOKEN_EXPIRED"
    ELSE "ok"

\* payload.get("email")
IdentityClaim(tok) == tok.email

\* An extraction without the "is None" test.
extract_user_from_token_NoCheck(tok, t) ==
    IF decode_jwt(tok, t) # "ok"
    THEN [ok |-> FALSE, code |-> decode_jwt(tok, t), user |-> Absent]
    ELSE [ok |-> TRUE, code |-> "ok", user |-> tok.email]

extract_user_from_token(tok, t) ==
    IF decode_jwt(tok, t) # "ok"
    THEN [ok |-> FALSE, code |-> decode_jwt(tok, t), user |-> Absent]
    ELSE IF IdentityClaim(tok) = Absent
         THEN [ok |-> FALSE, code |-> "TOKEN_INVALID", user |-> Absent]
         ELSE [ok |-> TRUE, code |-> "ok", user |-> IdentityClaim(tok)]

\* The resolver without the lookup in the users table.
get_current_user_NoLookup(tok, us, t) == extract_user_from_token(tok, t)

get_current_user(tok, us, t) ==
    LET x == extract_user_from_token(tok, t) IN
    IF ~x.ok THEN x
    ELSE IF x.user \notin us
         THEN [ok |-> FALSE, code |-> "USER_NOT_FOUND", user |-> Absent]
         ELSE x

\* The exception get_current_user lets through for a failure code.
AuthException(code) ==
    CASE code = "TOKEN_INVALID" -> TokenInvalidException("Could not validate credentials")
      [] code = "TOKEN_EXPIRED" -> TokenExpiredException("Token has expired")
      [] code = "USER_NOT_FOUND" -> UserNotFoundException("User not found")

AuthErrorResp(code) == Handle(AuthException(code))

\* ------------------------------------------------------------ task model
\* A create that takes the owner from the body when the body names one.
NewTask_TrustsBody(id, owner, body, t) ==
    [id |-> id,
     user_email |-> IF body.user_email = Absent THEN owner ELSE body.user_email,
     title |-> body.title,
     description |-> IF body.description = Absent THEN Null ELSE body.description,
     priority |-> IF body.priority \in {Absent, Null} THEN "medium" ELSE body.priority,
     is_completed |-> FALSE,
     due_date |-> IF body.due_date = AbsentTime THEN NoTime ELSE body.due_date,
     completed_at |-> NoTime,
     created_at |-> t,
     updated_at |-> t]

\* Task(...) with the column defaults of app/models/task.py; the INSERT leaves
\* out a column whose attribute is None, so a null priority gets the default.
NewTask(id, owner, body, t) ==
    [id |-> id,
     user_email |-> owner,
     title |-> body.title,
     description |-> IF body.description = Absent THEN Null ELSE body.description,
     priority |-> IF body.priority \in {Absent, Null} THEN "medium" ELSE body.priority,
     is_completed |-> FALSE,
     due_date |-> IF body.due_date = AbsentTime THEN NoTime ELSE body.due_date,
     completed_at |-> NoTime,
     created_at |-> t,
     updated_at |-> t]

\* uuid.uuid4(): an identifier no task was ever given
FreshId(n) == n

\* The lookup by id alone.
FindOwned_AnyOwner(ts, id, user) == {i \in DOMAIN ts : i = id}

\* select(Task).where(Task.id == task_id, Task.user_email == current_user)
FindOwned(ts, id, user) ==
    {i \in DOMAIN ts : i = id /\ ts[i].user_email = user}

Put(ts, t) == [i \in DOMAIN ts \cup {t.id} |-> IF i = t.id THEN t ELSE ts[i]]

\* A delete that keeps the row.
Remove_Soft(ts, id) == [i \in DOMAIN ts |-> ts[i]]

Remove(ts, id) == [i \in DOMAIN ts \ {id} |-> ts[i]]

\* pydantic's parse of a JSON boolean
ParseBool(v) == v = "true"

\* An update from task_data.dict(): the absent fields come as None.
ApplyUpdate_ResetsAbsent(task, body, t) ==
    [task EXCEPT
        !.title = IF body.title = Absent THEN @ ELSE body.title,
        !.description = IF body.description = Absent THEN Null ELSE body.description,
        !.priority = IF body.priority = Absent THEN @ ELSE body.priority,
        !.due_date = IF body.due_date = AbsentTime THEN NoTime ELSE body.due_date,
        !.is_completed = IF body.is_completed = Absent THEN @
                         ELSE body.is_completed = "true",
        !.updated_at = t]

\* An update that also applies a user_email field of the body.
ApplyUpdate_SetsOwner(task, body, t) ==
    [task EXCEPT
        !.user_email = IF body.user_email = Absent THEN @ ELSE body.user_email,
        !.title = IF body.title = Absent THEN @ ELSE body.title,
        !.description = IF body.description = Absent THEN @ ELSE body.description,
        !.priority = IF body.priority = Absent THEN @ ELSE body.priority,
        !.due_date = IF body.due_date = AbsentTime THEN @ ELSE body.due_date,
        !.is_completed = IF body.is_completed = Absent THEN @
                         ELSE body.is_completed = "true",
        !.updated_at = t]

\* An update that stamps updated_at only when the payload carries a field.
ApplyUpdate_StampsOnChange(task, body, t) ==
    [task EXCEPT
        !.title = IF body.title = Absent THEN @ ELSE body.title,
        !.description = IF body.description = Absent THEN @ ELSE body.description,
        !.priority = IF body.priority = Absent THEN @ ELSE body.priority,
        !.due_date = IF body.due_date = AbsentTime THEN @ ELSE body.due_date,
        !.is_completed = IF body.is_completed = Absent THEN @
                         ELSE body.is_completed = "true",
        !.updated_at = IF body = [body EXCEPT !.title = Absent, !.description = Absent,
                                              !.priority = Absent, !.due_date = AbsentTime,
                                              !.is_completed = Absent]
                       THEN @ ELSE t]

\* One setattr(task, field, value) per field of task_data.dict(exclude_unset=True),
\* then the updated_at stamp.
ApplyUpdate(task, body, t) ==
    [task EXCEPT
        !.title = IF body.title = Absent THEN @ ELSE body.title,
        !.description = IF body.description = Absent THEN @ ELSE body.description,
        !.priority = IF body.priority = Absent THEN @ ELSE body.priority,
        !.due_date = IF body.due_date = AbsentTime THEN @ ELSE body.due_date,
        !.is_completed = IF body.is_completed = Absent THEN @
                         ELSE ParseBool(body.is_completed),
        !.updated_at = t]

\* The columns declared without Optional are NOT NULL: the commit of a row with a
\* null in one of them raises IntegrityError.
ViolatesNotNull(body) ==
    body.title = Null \/ body.priority = Null \/ body.is_completed = Null

\* A toggle that leaves the old stamp when the task becomes incomplete.
ToggleCompletion_KeepsStamp(task, t) ==
    [task EXCEPT
        !.is_completed = ~@,
        !.completed_at = IF ~task.is_completed THEN t ELSE @,
        !.updated_at = t]

\* A toggle that marks the task complete whatever it was.
ToggleCompletion_Completes(task, t) ==
    [task EXCEPT
        !.is_completed = TRUE,
        !.completed_at = t,
        !.updated_at = t]

\* The body of toggle_task_completion after the lookup.
ToggleCompletion(task, t) ==
    [task EXCEPT
        !.is_completed = ~@,
        !.completed_at = IF ~task.is_completed THEN t ELSE NoTime,
        !.updated_at = t]

\* datetime.combine(d, datetime.min.time()) and datetime.combine(d, datetime.max.time())
DayStart(d) == d * DayLen
DayEnd(d) == d * DayLen + (DayLen - 1)

\* A page statement without the owner clause.
PageFilter_NoOwner(task, user, q) ==
    /\ q.completed # Absent => task.is_completed = (q.completed = "true")
    /\ q.priority # Absent => task.priority = q.priority
    /\ q.date_from # NoTime => task.created_at >= q.date_from * DayLen
    /\ q.date_to # NoTime => task.created_at <= q.date_to * DayLen + (DayLen - 1)

\* The where-clauses of the page statement.
PageFilter(task, user, q) ==
    /\ task.user_email = user
    /\ q.completed # Absent => task.is_completed = ParseBool(q.completed)
    /\ q.priority # Absent => task.priority = q.priority
    /\ q.date_from # NoTime => task.created_at >= DayStart(q.date_from)
    /\ q.date_to # NoTime => task.created_at <= DayEnd(q.date_to)

\* A count statement that has drifted from the page statement: no priority clause.
CountFilter_NoPriority(task, user, q) ==
    /\ task.user_email = user
    /\ q.completed # Absent => task.is_completed = (q.completed = "true")
    /\ q.date_from # NoTime => task.created_at >= q.date_from * DayLen
    /\ q.date_to # NoTime => task.created_at <= q.date_to * DayLen + (DayLen - 1)

\* The where-clauses of the count statement (built a second time in the code).
CountFilter(task, user, q) ==
    /\ task.user_email = user
    /\ q.completed # Absent => task.is_completed = ParseBool(q.completed)
    /\ q.priority # Absent => task.priority = q.priority
    /\ q.date_from # NoTime => task.created_at >= DayStart(q.date_from)
    /\ q.date_to # NoTime => task.created_at <= DayEnd(q.date_to)

\* The rows of a statement without ORDER BY come in any order.
Orderings(S) ==
    {s \in [1..Cardinality(S) -> S] : \A i, j \in 1..Cardinality(S) : s[i] = s[j] => i = j}

Min(a, b) == IF a <= b THEN a ELSE b

\* statement.offset(offset).limit(page_size)
OffsetLimit(rows, offset, limit) ==
    SubSeq(rows, offset + 1, Min(Len(rows), offset + limit))

PageOffset(q) == (q.page - 1) * q.page_size

ListResp(rows, count) ==
    [status |-> 200, code |-> "OK", message |-> "", message_id |-> 0,
     tasks |-> rows, total_count |-> count]

DeletedResp ==
    [status |-> 200, code |-> "OK", message |-> "Task deleted successfully",
     message_id |-> 0, tasks |-> <<>>, total_count |-> -1]

\* The last task toggled with nothing done to it since: how many toggles in a
\* row (counted to 2), and its completion state before the last of them.
NoTog == [id |-> 0, n |-> 0, is_completed |-> FALSE, completed_at |-> NoTime]

\* ------------------------------------------------- sessions and engines
\* The database engines the repository runs on: settings.database_url in
\* deployment, in-memory SQLite under the test suite.
Engines == {"postgresql", "sqlite"}

\* VARCHAR(200): PostgreSQL refuses a longer value, SQLite keeps no length.
TitleMaxLength == 200
LongTitle == "long"
TitleLen(title) == IF title = LongTitle THEN TitleMaxLength + 1 ELSE 2

RejectsLength(eng, title) == eng = "postgresql" /\ TitleLen(title) > TitleMaxLength

\* sqlalchemy.exc.DataError, raised by the commit of an over-long value
DataError == Exc("DataError", 0, "value too long for type character varying(200)", 0)

\* fastapi.exceptions.RequestValidationError, raised for a body the schema refuses
RequestValidationError == Exc("RequestValidationError", 0, "validation", 0)

\* TaskCreate(**body): title a string, priority a member of the enum or null
ValidCreate(body) ==
    /\ body.title \notin {Absent, Null}
    /\ body.priority \in PriorityEnum \cup {Absent, Null}

\* TaskUpdate(**body): every field optional
ValidUpdate(body) ==
    /\ body.priority \in PriorityEnum \cup {Absent, Null}
    /\ body.is_completed \in {Absent, Null, "true", "false"}

\* get_session: "async with AsyncSession(async_engine) as session" is entered ...
get_session_enter(ss, r) == ss \cup {r}

\* A dependency that closes its session after the yield, without a finally.
get_session_exit_NoFinally(ss, r, failed) == IF failed THEN ss ELSE ss \ {r}

\* ... and left, with or without an exception thrown into the generator.
get_session_exit(ss, r, failed) == ss \ {r}

\* The request served one at a time.
Main == 0
Slots == {1, 2}

\* A concurrent request: where it is, what it asked, the row it read, the row
\* as its handler changed it, and its response.
NoProc == [pc |-> "idle", kind |-> "none", user |-> Absent, id |-> 0, body |-> NoBody,
           snap |-> <<>>, pending |-> <<>>, resp |-> NoResp, raised |-> NoExc]

\* --------------------------------------------------------------- actions
\* The application started on an empty tasks table.
InitStore ==
    /\ users = InitUsers
    /\ tasks = <<>>
    /\ nextId = 1
    /\ now = 0
    /\ nops = 0
    /\ req = NoReq
    /\ resp = NoResp
    /\ tog = NoTog
    /\ everAuthed = {}
    /\ raised = NoExc
    /\ sessions = {}
    /\ procs = [p \in Slots |-> NoProc]

Init == InitStore /\ engine = "postgresql"

\* The application started on either engine.
InitAnyEngine == InitStore /\ engine \in Engines

\* No request is being served.
Idle == req.kind = "none"

\* The request ends: the response is sent and get_session leaves its
\* "async with" block.
Finish ==
    /\ ~Idle
    /\ req' = NoReq
    /\ resp' = NoResp
    /\ raised' = NoExc
    /\ sessions' = get_session_exit(sessions, Main, raised # NoExc)
    /\ UNCHANGED <<engine, procs, users, tasks, nextId, now, nops, tog, everAuthed>>

\* The request is received: its dependencies open the session.
Begin(r) ==
    /\ Idle
    /\ req' = r
    /\ sessions' = get_session_enter(sessions, Main)
    /\ UNCHANGED <<engine, procs>>

\* An exception leaves the endpoint: the store stays, the handler answers.
Raises(exc) ==
    /\ raised' = exc
    /\ resp' = Handle(exc)
    /\ UNCHANGED <<users, tasks, nextId, now, nops, tog>>

Returns(r) ==
    /\ raised' = NoExc
    /\ resp' = r

\* The part of every endpoint done by the get_current_user dependency.
AuthFails(tok) ==
    /\ ~get_current_user(tok, users, now).ok
    /\ Raises(AuthException(get_current_user(tok, users, now).code))
    /\ UNCHANGED everAuthed

Caller(tok) == get_current_user(tok, users, now).user

\* An endpoint that reads the identity without waiting for the resolver's verdict.
Authed_Unverified(tok) == everAuthed' = everAuthed \cup {Caller(tok)}

Authed(tok) ==
    /\ get_current_user(tok, users, now).ok
    /\ everAuthed' = everAuthed \cup {Caller(tok)}

TaskNotFound(id) == Raises(TaskNotFoundExc(id))

create_task(tok, body) ==
    /\ Begin(Request("create", tok, 0, body, NoQuery))
    /\ \/ AuthFails(tok)
       \/ /\ Authed(tok)
          /\ IF ~ValidCreate(body) THEN Raises(RequestValidationError)
             ELSE IF RejectsLength(engine, body.title) THEN Raises(DataError)
             ELSE /\ nextId <= MaxTasks
                  /\ nops < MaxOps
                  /\ LET t == NewTask(FreshId(nextId), Caller(tok), body, now)
                     IN /\ tasks' = Put(tasks, t)
                        /\ Returns(TaskResp(t))
                  /\ nextId' = nextId + 1
                  /\ nops' = nops + 1
                  /\ UNCHANGED <<users, now, tog>>

list_tasks(tok, q) ==
    /\ Begin(Request("list", tok, 0, NoBody, q))
    /\ \/ AuthFails(tok)
       \/ /\ Authed(tok)
          /\ LET page == {i \in DOMAIN tasks : PageFilter(tasks[i], Caller(tok), q)}
                 count == {i \in DOMAIN tasks : CountFilter(tasks[i], Caller(tok), q)}
             IN \E ord \in Orderings(page) :
                  Returns(ListResp(
                      OffsetLimit([k \in 1..Cardinality(page) |-> tasks[ord[k]]],
                                  PageOffset(q), q.page_size),
                      Cardinality(count)))
          /\ UNCHANGED <<users, tasks, nextId, now, nops, tog>>

\* A get that stamps the row it read.
get_task_Touches(tok, id) ==
    /\ Begin(Request("get", tok, id, NoBody, NoQuery))
    /\ \/ AuthFails(tok)
       \/ /\ Authed(tok)
          /\ IF FindOwned(tasks, id, Caller(tok)) = {}
             THEN TaskNotFound(id)
             ELSE /\ tasks' = Put(tasks, [tasks[id] EXCEPT !.updated_at = now])
                  /\ Returns(TaskResp(tasks'[id]))
                  /\ UNCHANGED <<users, nextId, now, nops, tog>>

get_task(tok, id) ==
    /\ Begin(Request("get", tok, id, NoBody, NoQuery))
    /\ \/ AuthFails(tok)
       \/ /\ Authed(tok)
          /\ IF FindOwned(tasks, id, Caller(tok)) = {}
             THEN TaskNotFound(id)
             ELSE /\ Returns(TaskResp(tasks[id]))
                  /\ UNCHANGED <<users, tasks, nextId, now, nops, tog>>

update_task(tok, id, body) ==
    /\ Begin(Request("update", tok, id, body, NoQuery))
    /\ \/ AuthFails(tok)
       \/ /\ Authed(tok)
          /\ IF ~ValidUpdate(body) THEN Raises(RequestValidationError)
             ELSE IF FindOwned(tasks, id, Caller(tok)) = {}
             THEN TaskNotFound(id)
             ELSE IF ViolatesNotNull(body) THEN Raises(IntegrityError)
             ELSE IF RejectsLength(engine, ApplyUpdate(tasks[id], body, now).title)
             THEN Raises(DataError)
             ELSE /\ nops < MaxOps
                  /\ tasks' = Put(tasks, ApplyUpdate(tasks[id], body, now))
                  /\ Returns(TaskResp(tasks'[id]))
                  /\ nops' = nops + 1
                  /\ tog' = IF tog.id = id THEN NoTog ELSE tog
                  /\ UNCHANGED <<users, nextId, now>>

delete_task(tok, id) ==
    /\ Begin(Request("delete", tok, id, NoBody, NoQuery))
    /\ \/ AuthFails(tok)
       \/ /\ Authed(tok)
          /\ IF FindOwned(tasks, id, Caller(tok)) = {}
             THEN TaskNotFound(id)
             ELSE /\ nops < MaxOps
                  /\ tasks' = Remove(tasks, id)
                  /\ Returns(DeletedResp)
                  /\ nops' = nops + 1
                  /\ tog' = IF tog.id = id THEN NoTog ELSE tog
                  /\ UNCHANGED <<users, nextId, now>>

toggle_task_completion(tok, id) ==
    /\ Begin(Request("toggle", tok, id, NoBody, NoQuery))
    /\ \/ AuthFails(tok)
       \/ /\ Authed(tok)
          /\ IF FindOwned(tasks, id, Caller(tok)) = {}
             THEN TaskNotFound(id)
             ELSE /\ nops < MaxOps
                  /\ tasks' = Put(tasks, ToggleCompletion(tasks[id], now))
                  /\ Returns(TaskResp(tasks'[id]))
                  /\ nops' = nops + 1
                  /\ tog' = [id |-> id,
                             n |-> IF tog.id = id THEN Min(tog.n + 1, 2) ELSE 1,
                             is_completed |-> tasks[id].is_completed,
                             completed_at |-> tasks[id].completed_at]
                  /\ UNCHANGED <<users, nextId, now>>

\* An exception raised inside an endpoint of an authenticated caller: one of
\* the classes of app/core/exceptions.py, an HTTPException, or an error of the
\* database driver at execute or commit.
endpoint_raises(kind, tok, exc) ==
    /\ Begin(Request(kind, tok, 0, NoBody, NoQuery))
    /\ Authed(tok)
    /\ Raises(exc)

\* The clock of datetime.utcnow() / get_utc_now().
Tick ==
    /\ Idle
    /\ now < MaxTime
    /\ now' = now + 1
    /\ UNCHANGED <<req, resp, raised, sessions, engine, procs>>
    /\ UNCHANGED <<users, tasks, nextId, nops, tog, everAuthed>>

\* A row of the users table is removed by the account service; tasks.user_email
\* is a foreign key to users.email, so a user that still owns tasks stays.
RemoveUser(u) ==
    /\ Idle
    /\ u \in users
    /\ \A i \in DOMAIN tasks : tasks[i].user_email # u
    /\ users' = users \ {u}
    /\ UNCHANGED <<req, resp, raised, sessions, engine, procs>>
    /\ UNCHANGED <<tasks, nextId, now, nops, tog, everAuthed>>

\* ---------------------------------------------------- concurrent requests
\* The UPDATE of a flush: the columns whose attribute the handler changed.
Flush_Reapplies(stored, snap, pending) ==
    [stored EXCEPT
        !.is_completed = ~@,
        !.completed_at = IF ~stored.is_completed THEN pending.updated_at ELSE NoTime,
        !.updated_at = pending.updated_at]

Flush(stored, snap, pending) ==
    [f \in DOMAIN stored |-> IF pending[f] # snap[f] THEN pending[f] ELSE stored[f]]

\* sqlalchemy.orm.exc.StaleDataError: the UPDATE of a flush matched no row
StaleDataError == Exc("StaleDataError", 0, "UPDATE statement expected to update 1 row(s)", 0)

\* sqlalchemy.exc.InvalidRequestError: session.refresh found no row
InvalidRequestError == Exc("InvalidRequestError", 0, "Could not refresh instance", 0)

Failed(kind, id, exc) ==
    [NoProc EXCEPT !.pc = "done", !.kind = kind, !.id = id,
                   !.resp = Handle(exc), !.raised = exc]

\* get_current_user and the select of the row, in a session of request p.
Select(p, kind, tok, id, changed) ==
    /\ procs[p].pc = "idle"
    /\ sessions' = get_session_enter(sessions, p)
    /\ LET who == get_current_user(tok, users, now) IN
       IF ~who.ok
       THEN /\ procs' = [procs EXCEPT ![p] = Failed(kind, id, AuthException(who.code))]
            /\ UNCHANGED nops
       ELSE IF FindOwned(tasks, id, who.user) = {}
       THEN /\ procs' = [procs EXCEPT ![p] = Failed(kind, id, TaskNotFoundExc(id))]
            /\ UNCHANGED nops
       ELSE /\ nops < MaxOps
            /\ nops' = nops + 1
            /\ procs' = [procs EXCEPT ![p] =
                  [NoProc EXCEPT !.pc = "read", !.kind = kind, !.user = who.user,
                                 !.id = id, !.snap = tasks[id],
                                 !.pending = IF changed THEN ToggleCompletion(tasks[id], now)
                                             ELSE tasks[id]]]
    /\ UNCHANGED <<users, tasks, nextId, now, req, resp, tog, everAuthed, raised, engine>>

\* toggle_task_completion up to its "await session.commit()"
toggle_select(p, tok, id) == Select(p, "toggle", tok, id, TRUE)

\* delete_task up to its "await session.commit()"
delete_select(p, tok, id) == Select(p, "delete", tok, id, FALSE)

\* session.commit() of a toggle: the UPDATE and the COMMIT
toggle_commit(p) ==
    /\ procs[p].pc = "read"
    /\ procs[p].kind = "toggle"
    /\ IF procs[p].id \in DOMAIN tasks
       THEN /\ tasks' = Put(tasks, Flush(tasks[procs[p].id], procs[p].snap, procs[p].pending))
            /\ procs' = [procs EXCEPT ![p].pc = "committed"]
       ELSE /\ procs' = [procs EXCEPT ![p] = Failed("toggle", procs[p].id, StaleDataError)]
            /\ UNCHANGED tasks
    /\ UNCHANGED <<users, nextId, now, nops, req, resp, tog, everAuthed, raised, sessions,
                   engine>>

\* session.refresh(task) and the return
toggle_refresh(p) ==
    /\ procs[p].pc = "committed"
    /\ procs[p].kind = "toggle"
    /\ procs' = [procs EXCEPT ![p] =
          IF procs[p].id \in DOMAIN tasks
          THEN [@ EXCEPT !.pc = "done", !.resp = TaskResp(tasks[procs[p].id])]
          ELSE Failed("toggle", procs[p].id, InvalidRequestError)]
    /\ UNCHANGED <<users, tasks, nextId, now, nops, req, resp, tog, everAuthed, raised,
                   sessions, engine>>

\* session.delete(task), session.commit() and the return; a DELETE that matches
\* no row is a warning only.
delete_commit(p) ==
    /\ procs[p].pc = "read"
    /\ procs[p].kind = "delete"
    /\ tasks' = Remove(tasks, procs[p].id)
    /\ procs' = [procs EXCEPT ![p].pc = "done", ![p].resp = DeletedResp]
    /\ UNCHANGED <<users, nextId, now, nops, req, resp, tog, everAuthed, raised, sessions,
                   engine>>

\* update_task up to its "await session.commit()": the body is validated once
\* the dependencies are resolved, then the row is selected and assigned to.
update_select(p, tok, id, body) ==
    /\ procs[p].pc = "idle"
    /\ sessions' = get_session_enter(sessions, p)
    /\ LET who == get_current_user(tok, users, now) IN
       IF ~who.ok
       THEN /\ procs' = [procs EXCEPT ![p] = Failed("update", id, AuthException(who.code))]
            /\ UNCHANGED nops
       ELSE IF ~ValidUpdate(body)
       THEN /\ procs' = [procs EXCEPT ![p] = Failed("update", id, RequestValidationError)]
            /\ UNCHANGED nops
       ELSE IF FindOwned(tasks, id, who.user) = {}
       THEN /\ procs' = [procs EXCEPT ![p] = Failed("update", id, TaskNotFoundExc(id))]
            /\ UNCHANGED nops
       ELSE /\ nops < MaxOps
            /\ nops' = nops + 1
            /\ procs' = [procs EXCEPT ![p] =
                  [NoProc EXCEPT !.pc = "read", !.kind = "update", !.user = who.user,
                                 !.id = id, !.body = body, !.snap = tasks[id],
                                 !.pending = ApplyUpdate(tasks[id], body, now)]]
    /\ UNCHANGED <<users, tasks, nextId, now, req, resp, tog, everAuthed, raised, engine>>

\* An UPDATE that inserts the row when it matches none.
UpdateRow_Upserts(ts, id, snap, pending) ==
    Put(ts, IF id \in DOMAIN ts THEN Flush(ts[id], snap, pending) ELSE pending)

\* UPDATE tasks SET <changed columns> WHERE id = :id
UpdateRow(ts, id, snap, pending) ==
    IF id \in DOMAIN ts THEN Put(ts, Flush(ts[id], snap, pending)) ELSE ts

\* session.commit() of an update: no statement when no attribute changed, else
\* the UPDATE, refused by a constraint or matching no row, and the COMMIT
update_commit(p) ==
    /\ procs[p].pc = "read"
    /\ procs[p].kind = "update"
    /\ LET id == procs[p].id
           found == id \in DOMAIN tasks
       IN IF procs[p].pending = procs[p].snap
          THEN /\ procs' = [procs EXCEPT ![p].pc = "committed"]
               /\ UNCHANGED tasks
          ELSE IF found /\ ViolatesNotNull(procs[p].body)
          THEN /\ procs' = [procs EXCEPT ![p] = Failed("update", id, IntegrityError)]
               /\ UNCHANGED tasks
          ELSE IF found /\ RejectsLength(engine, procs[p].pending.title)
          THEN /\ procs' = [procs EXCEPT ![p] = Failed("update", id, DataError)]
               /\ UNCHANGED tasks
          ELSE /\ tasks' = UpdateRow(tasks, id, procs[p].snap, procs[p].pending)
               /\ procs' = [procs EXCEPT ![p] =
                     IF found THEN [@ EXCEPT !.pc = "committed"]
                     ELSE Failed("update", id, StaleDataError)]
    /\ UNCHANGED <<users, nextId, now, nops, req, resp, tog, everAuthed, raised, sessions,
                   engine>>

\* session.refresh(task) of an update and the return
update_refresh(p) ==
    /\ procs[p].pc = "committed"
    /\ procs[p].kind = "update"
    /\ procs' = [procs EXCEPT ![p] =
          IF procs[p].id \in DOMAIN tasks
          THEN [@ EXCEPT !.pc = "done", !.resp = TaskResp(tasks[procs[p].id])]
          ELSE Failed("update", procs[p].id, InvalidRequestError)]
    /\ UNCHANGED <<users, tasks, nextId, now, nops, req, resp, tog, everAuthed, raised,
                   sessions, engine>>

\* The response of request p is sent and its get_session leaves "async with".
close(p) ==
    /\ procs[p].pc = "done"
    /\ sessions' = get_session_exit(sessions, p, procs[p].raised # NoExc)
    /\ procs' = [procs EXCEPT ![p] = NoProc]
    /\ UNCHANGED <<users, tasks, nextId, now, nops, req, resp, tog, everAuthed, raised,
                   engine>>

\* No concurrent request is in flight.
Quiet == \A p \in Slots : procs[p].pc = "idle"

\* ---------------------------------------------------------------- inputs
\* The values a JSON body can give to a field, as <<field, value>>.
UpdateFieldValues ==
    {<<"title", v>> : v \in {Null} \cup Titles}
    \cup {<<"description", v>> : v \in {Null} \cup Descriptions}
    \cup {<<"priority", v>> : v \in {Null} \cup PriorityEnum}
    \cup {<<"due_date", v>> : v \in {NoTime} \cup DueDates}
    \cup {<<"is_completed", v>> : v \in {Null, "true", "false"}}
    \cup {<<"user_email", v>> : v \in OwnerLike}

CreateFieldValues ==
    {<<"user_email", v>> : v \in OwnerLike}
    \cup {<<"description", v>> : v \in Descriptions}
    \cup {<<"priority", v>> : v \in PriorityEnum}
    \cup {<<"due_date", v>> : v \in DueDates}

QueryFieldValues ==
    {<<"completed", v>> : v \in {"true", "false"}}
    \cup {<<"priority", v>> : v \in PriorityEnum}
    \cup {<<"date_from", v>> : v \in Days}
    \cup {<<"date_to", v>> : v \in Days}

\* The records got from those of `base` by supplying at most n more fields.
RECURSIVE Supplying(_, _, _)
Supplying(base, fvs, n) ==
    IF n = 0 THEN base
    ELSE LET less == Supplying(base, fvs, n - 1)
         IN less \cup {[b EXCEPT ![fv[1]] = fv[2]] : b \in less, fv \in fvs}

CreateBodies ==
    Supplying({[NoBody EXCEPT !.title = t] : t \in Titles}, CreateFieldValues,
              MaxFields - 1)

UpdateBodies == Supplying({NoBody}, UpdateFieldValues, MaxFields)

ListQueries ==
    Supplying({[NoQuery EXCEPT !.page = p, !.page_size = s] :
                 p \in 1..MaxPage, s \in 1..MaxPageSize},
              QueryFieldValues, MaxFilters)

\* The few bodies and queries of the specifications that vary something else.
FewCreateBodies ==
    {[NoBody EXCEPT !.title = "t1", !.user_email = "b@x"],
     [NoBody EXCEPT !.title = "t2", !.description = "d1", !.priority = "high",
                    !.due_date = 1]}

FewUpdateBodies ==
    {NoBody,
     [NoBody EXCEPT !.is_completed = "true"],
     [NoBody EXCEPT !.is_completed = "false"],
     [NoBody EXCEPT !.title = "t2", !.priority = "low", !.user_email = "b@x"],
     [NoBody EXCEPT !.title = Null]}

FewListQueries ==
    {[NoQuery EXCEPT !.page = 1, !.page_size = MaxPageSize],
     [NoQuery EXCEPT !.completed = "true", !.page = 2, !.page_size = 1]}

TaskIds == 1..(MaxTasks + 1)

\* Every token: well signed, badly signed, not a JWT at all, or signed with an
\* algorithm the codec does not allow; every expiry; with and without claims.
AuthTokens ==
    [sig : {"good", "bad", "malformed", "alg"}, exp : 0..FarExp,
     sub : {Absent, "a@x"}, email : {Absent, "a@x", "b@x"}]

Kinds == {"create", "list", "get", "update", "delete", "toggle"}
Details == {"m1", "m2"}
HttpStatuses == {401, 404, 405, 422, 500}

\* The exceptions that can leave an endpoint, each with several messages.
Exceptions ==
    UNION {{TokenInvalidException(d), TokenExpiredException(d), UserNotFoundException(d),
            TaskNotFoundException(d, 0), ValidationException(d), DatabaseException(d)} :
           d \in Details}
    \cup {Exc("HTTPException", st, d, 0) : st \in HttpStatuses, d \in Details \cup {""}}
    \cup {Exc(c, 0, d, 0) : c \in {"IntegrityError", "OperationalError", "KeyError",
                                   "Exception"},
                            d \in Details}

\* Every body goes to the first task, the few bodies to the later ones.
BodiesForCreate == IF nextId = 1 THEN CreateBodies ELSE FewCreateBodies
BodiesForTask(id) == IF id = 1 THEN UpdateBodies ELSE FewUpdateBodies

\* A request whose authentication fails never looks at its parameters: one
\* representative of each parameter set is enough for it.
For(tok, S) ==
    IF ~Idle THEN {}
    ELSE IF get_current_user(tok, users, now).ok THEN S ELSE {CHOOSE x \in S : TRUE}

\* Likewise the body of an update whose lookup finds nothing.
ForTask(tok, id, S) ==
    IF ~Idle THEN {}
    ELSE IF get_current_user(tok, users, now).ok
            /\ FindOwned(tasks, id, Caller(tok)) # {}
         THEN S ELSE {CHOOSE x \in S : TRUE}

Next ==
    \/ \E tok \in Tokens : \E body \in For(tok, FewCreateBodies) : create_task(tok, body)
    \/ \E tok \in Tokens : \E q \in For(tok, FewListQueries) : list_tasks(tok, q)
    \/ \E tok \in Tokens : \E id \in For(tok, TaskIds) : get_task(tok, id)
    \/ \E tok \in Tokens : \E id \in For(tok, TaskIds) :
         \E body \in ForTask(tok, id, FewUpdateBodies) : update_task(tok, id, body)
    \/ \E tok \in Tokens : \E id \in For(tok, TaskIds) : delete_task(tok, id)
    \/ \E tok \in Tokens : \E id \in For(tok, TaskIds) : toggle_task_completion(tok, id)
    \/ Finish
    \/ Tick
    \/ \E u \in Emails : RemoveUser(u)

Spec == Init /\ [][Next]_vars

\* The same machine with every update body.
NextFields ==
    \/ \E tok \in Tokens : \E body \in For(tok, FewCreateBodies) : create_task(tok, body)
    \/ \E tok \in Tokens : \E q \in For(tok, FewListQueries) : list_tasks(tok, q)
    \/ \E tok \in Tokens : \E id \in For(tok, TaskIds) : get_task(tok, id)
    \/ \E tok \in Tokens : \E id \in For(tok, TaskIds) :
         \E body \in ForTask(tok, id, BodiesForTask(id)) : update_task(tok, id, body)
    \/ \E tok \in Tokens : \E id \in For(tok, TaskIds) : delete_task(tok, id)
    \/ \E tok \in Tokens : \E id \in For(tok, TaskIds) : toggle_task_completion(tok, id)
    \/ Finish
    \/ Tick
    \/ \E u \in Emails : RemoveUser(u)

SpecFields == Init /\ [][NextFields]_vars

\* The same machine with every create body.
NextCreate ==
    \/ \E tok \in Tokens : \E body \in For(tok, BodiesForCreate) : create_task(tok, body)
    \/ \E tok \in Tokens : \E q \in For(tok, FewListQueries) : list_tasks(tok, q)
    \/ \E tok \in Tokens : \E id \in For(tok, TaskIds) : get_task(tok, id)
    \/ \E tok \in Tokens : \E id \in For(tok, TaskIds) :
         \E body \in ForTask(tok, id, FewUpdateBodies) : update_task(tok, id, body)
    \/ \E tok \in Tokens : \E id \in For(tok, TaskIds) : delete_task(tok, id)
    \/ \E tok \in Tokens : \E id \in For(tok, TaskIds) : toggle_task_completion(tok, id)
    \/ Finish
    \/ Tick
    \/ \E u \in Emails : RemoveUser(u)

SpecCreate == Init /\ [][NextCreate]_vars

\* The same machine with every list query.
NextList ==
    \/ \E tok \in Tokens : \E body \in For(tok, FewCreateBodies) : create_task(tok, body)
    \/ \E tok \in Tokens : \E q \in For(tok, ListQueries) : list_tasks(tok, q)
    \/ \E tok \in Tokens : \E id \in For(tok, TaskIds) : get_task(tok, id)
    \/ \E tok \in Tokens : \E id \in For(tok, TaskIds) :
         \E body \in ForTask(tok, id, FewUpdateBodies) : update_task(tok, id, body)
    \/ \E tok \in Tokens : \E id \in For(tok, TaskIds) : delete_task(tok, id)
    \/ \E tok \in Tokens : \E id \in For(tok, TaskIds) : toggle_task_completion(tok, id)
    \/ Finish
    \/ Tick
    \/ \E u \in Emails : RemoveUser(u)

SpecList == Init /\ [][NextList]_vars

\* The bodies that carry a null, an over-long value or a value outside its type.
EdgeCreateBodies ==
    {[NoBody EXCEPT !.title = "t1"],
     [NoBody EXCEPT !.title = LongTitle],
     [NoBody EXCEPT !.title = Null],
     [NoBody EXCEPT !.priority = "high"],
     [NoBody EXCEPT !.title = "t1", !.priority = Null],
     [NoBody EXCEPT !.title = "t1", !.priority = "urgent"]}

EdgeUpdateBodies ==
    {[NoBody EXCEPT !.title = "t2", !.priority = "low"],
     [NoBody EXCEPT !.title = LongTitle],
     [NoBody EXCEPT !.title = Null],
     [NoBody EXCEPT !.priority = Null],
     [NoBody EXCEPT !.priority = "urgent"],
     [NoBody EXCEPT !.is_completed = Null],
     [NoBody EXCEPT !.is_completed = "2"],
     [NoBody EXCEPT !.is_completed = "true"]}

\* The same machine on either engine, with those bodies.
NextEdge ==
    \/ \E tok \in Tokens : \E body \in For(tok, EdgeCreateBodies) : create_task(tok, body)
    \/ \E tok \in Tokens : \E id \in For(tok, TaskIds) : get_task(tok, id)
    \/ \E tok \in Tokens : \E id \in For(tok, TaskIds) :
         \E body \in For(tok, EdgeUpdateBodies) : update_task(tok, id, body)
    \/ \E tok \in Tokens : \E id \in For(tok, TaskIds) : toggle_task_completion(tok, id)
    \/ Finish
    \/ Tick
    \/ \E u \in Emails : RemoveUser(u)

SpecEdge == InitAnyEngine /\ [][NextEdge]_vars

\* A concurrent request whose authentication fails looks at no parameter.
ForAuth(tok, S) ==
    IF get_current_user(tok, users, now).ok THEN S ELSE {CHOOSE x \in S : TRUE}

\* Toggles and deletes that overlap, on tasks created one request at a time.
NextConc ==
    \/ \E tok \in Tokens : \E body \in For(tok, FewCreateBodies) :
         Quiet /\ create_task(tok, body)
    \/ Finish
    \/ \E p \in Slots : \E tok \in Tokens : \E id \in ForAuth(tok, TaskIds) :
         toggle_select(p, tok, id)
    \/ \E p \in Slots : \E tok \in Tokens : \E id \in ForAuth(tok, TaskIds) :
         delete_select(p, tok, id)
    \/ \E p \in Slots : toggle_commit(p)
    \/ \E p \in Slots : toggle_refresh(p)
    \/ \E p \in Slots : delete_commit(p)
    \/ \E p \in Slots : close(p)
    \/ Tick

SpecConc == Init /\ [][NextConc]_vars

\* The bodies of the updates that overlap a delete, and the callers: the two
\* users, one of them with a token that expires.
RaceUpdateBodies ==
    {[NoBody EXCEPT !.is_completed = "true"],
     [NoBody EXCEPT !.title = "t2", !.priority = "low"],
     [NoBody EXCEPT !.title = Null]}

RaceCreateBodies == {[NoBody EXCEPT !.title = "t1"]}

RaceTokens == {tok \in Tokens : tok.sig = "good" /\ tok.email # Absent}

\* Updates, toggles and deletes that overlap.
NextRace ==
    \/ \E tok \in RaceTokens : \E body \in For(tok, RaceCreateBodies) :
         Quiet /\ create_task(tok, body)
    \/ Finish
    \/ \E p \in Slots : \E tok \in RaceTokens : \E id \in ForAuth(tok, TaskIds) :
         \E body \in ForAuth(tok, RaceUpdateBodies) : update_select(p, tok, id, body)
    \/ \E p \in Slots : \E tok \in RaceTokens : \E id \in ForAuth(tok, TaskIds) :
         toggle_select(p, tok, id)
    \/ \E p \in Slots : \E tok \in RaceTokens : \E id \in ForAuth(tok, TaskIds) :
         delete_select(p, tok, id)
    \/ \E p \in Slots : update_commit(p)
    \/ \E p \in Slots : update_refresh(p)
    \/ \E p \in Slots : toggle_commit(p)
    \/ \E p \in Slots : toggle_refresh(p)
    \/ \E p \in Slots : delete_commit(p)
    \/ \E p \in Slots : close(p)
    \/ Tick

SpecRace == Init /\ [][NextRace]_vars

\* The same machine with every token and every exception.
NextErrors ==
    \/ \E tok \in Tokens : \E body \in For(tok, FewCreateBodies) : create_task(tok, body)
    \/ \E tok \in AuthTokens : \E q \in For(tok, FewListQueries) : list_tasks(tok, q)
    \/ \E tok \in AuthTokens : \E id \in For(tok, TaskIds) : get_task(tok, id)
    \/ \E tok \in Tokens : \E id \in For(tok, TaskIds) :
         \E body \in ForTask(tok, id, FewUpdateBodies) : update_task(tok, id, body)
    \/ \E tok \in Tokens : \E kind \in For(tok, Kinds) : \E exc \in For(tok, Exceptions) :
         endpoint_raises(kind, tok, exc)
    \/ Finish
    \/ Tick
    \/ \E u \in Emails : RemoveUser(u)

SpecErrors == Init /\ [][NextErrors]_vars

\* ---------------------------------------------------------------- claims
\* A step in which a handler serves a request.
Served == req.kind = "none" /\ req'.kind # "none"

\* The request in req' carries a token the codec accepts, with an identity
\* that has a row in the users table before the step.
Authenticated ==
    /\ req'.token.sig = "good"
    /\ req'.token.exp > now
    /\ req'.token.email \in users

NotFound404(id) ==
    [status |-> 404, code |-> "TASK_NOT_FOUND", message |-> "Task with id not found",
     message_id |-> id, tasks |-> <<>>, total_count |-> -1]

\* C1: a get, update, delete or toggle by an authenticated identity on the id of
\* a task of another owner is answered 404 TASK_NOT_FOUND, with the very response
\* an id that names no task gets, and the store is left as it was.
C1_ForeignTaskIsNotFound ==
    [][(/\ Served
        /\ Authenticated
        /\ req'.kind \in {"get", "update", "delete", "toggle"}
        /\ \/ req'.id \notin DOMAIN tasks
           \/ tasks[req'.id].user_email # req'.token.email)
       => (resp' = NotFound404(req'.id) /\ tasks' = tasks)]_vars

C1_Witness ==
    /\ req.kind \in {"update", "delete", "toggle"}
    /\ req.id \in DOMAIN tasks
    /\ tasks[req.id].user_email # req.token.email
    /\ resp.code = "TASK_NOT_FOUND"

\* C2: every stored task has completed_at set exactly when is_completed is true.
C2_CompletedAtIffCompleted ==
    \A i \in DOMAIN tasks : (tasks[i].completed_at # NoTime) <=> tasks[i].is_completed

\* C3 as stated: the second of two toggles in a row on a task brings back the
\* is_completed and the completed_at the task had before the first (taken on
\* the tasks that began with completed_at set exactly when complete, so that
\* it does not rest on what C2 finds).
C3_ToggleTwiceRestoresAll ==
    [][(/\ Served
        /\ req'.kind = "toggle"
        /\ resp'.status = 200
        /\ tog.id = req'.id
        /\ (tog.completed_at # NoTime) <=> tog.is_completed)
       => (/\ tasks'[req'.id].is_completed = tog.is_completed
           /\ tasks'[req'.id].completed_at = tog.completed_at)]_vars

\* C3 amended: the second of two toggles in a row brings back is_completed;
\* completed_at is then absent when that value is false and the time of the
\* second toggle when it is true, so the original completed_at is back when the
\* task began incomplete with no completed_at.
C3_ToggleTwiceRestoresFlag ==
    [][(/\ Served
        /\ req'.kind = "toggle"
        /\ resp'.status = 200
        /\ tog.id = req'.id)
       => (/\ tasks'[req'.id].is_completed = tog.is_completed
           /\ tasks'[req'.id].completed_at = (IF tog.is_completed THEN now ELSE NoTime)
           /\ (~tog.is_completed /\ tog.completed_at = NoTime)
                => tasks'[req'.id].completed_at = tog.completed_at)]_vars

C3_Witness ==
    /\ req.kind = "toggle"
    /\ resp.status = 200
    /\ tog.n = 2
    /\ tog.id = req.id
    /\ tasks[req.id].is_completed
    /\ tasks[req.id].completed_at = now
    /\ now > tasks[req.id].created_at

\* C4: a create stores one new task, owned by the authenticated identity
\* whatever the body says about an owner, incomplete, without completed_at,
\* of priority medium when the body gives none, under an id no stored task has.
C4_CreateOwnerDefaultsFreshId ==
    [][(Served /\ req'.kind = "create" /\ resp'.status = 200)
       => (/\ Authenticated
           /\ Len(resp'.tasks) = 1
           /\ LET t == resp'.tasks[1]
              IN /\ t.user_email = req'.token.email
                 /\ t.is_completed = FALSE
                 /\ t.completed_at = NoTime
                 /\ req'.body.priority = Absent => t.priority = "medium"
                 /\ req'.body.priority # Absent => t.priority = req'.body.priority
                 /\ t.id \notin DOMAIN tasks
                 /\ DOMAIN tasks' = DOMAIN tasks \cup {t.id}
                 /\ tasks'[t.id] = t
                 /\ \A i \in DOMAIN tasks : tasks'[i] = tasks[i])]_vars

C4_Witness ==
    /\ req.kind = "create"
    /\ resp.status = 200
    /\ req.body.priority = Absent
    /\ req.body.user_email # Absent
    /\ req.body.user_email # req.token.email
    /\ resp.tasks[1].priority = "medium"
    /\ Cardinality(DOMAIN tasks) = 2

\* C5: a successful update leaves every field that its payload does not carry
\* as it was, changes nothing but the carried fields and updated_at, and
\* touches no other task.
C5_UpdateKeepsAbsentFields ==
    [][(Served /\ req'.kind = "update" /\ resp'.status = 200)
       => (/\ req'.id \in DOMAIN tasks
           /\ DOMAIN tasks' = DOMAIN tasks
           /\ \A i \in DOMAIN tasks \ {req'.id} : tasks'[i] = tasks[i]
           /\ LET old == tasks[req'.id]
                  new == tasks'[req'.id]
                  b == req'.body
              IN /\ b.title = Absent => new.title = old.title
                 /\ b.description = Absent => new.description = old.description
                 /\ b.priority = Absent => new.priority = old.priority
                 /\ b.due_date = AbsentTime => new.due_date = old.due_date
                 /\ b.is_completed = Absent => new.is_completed = old.is_completed
                 /\ new.id = old.id
                 /\ new.user_email = old.user_email
                 /\ new.created_at = old.created_at
                 /\ new.completed_at = old.completed_at)]_vars

C5_Witness ==
    /\ req.kind = "update"
    /\ resp.status = 200
    /\ req.body.title # Absent
    /\ req.body.description = Absent
    /\ req.body.priority = Absent
    /\ req.body.due_date = AbsentTime
    /\ tasks[req.id].description # Null
    /\ tasks[req.id].priority # "medium"
    /\ tasks[req.id].due_date # NoTime
    /\ tasks[req.id].is_completed

\* C6: a task that stays in the store keeps its id and its user_email over
\* every step, whoever sends whatever request.
C6_OwnerAndIdImmutable ==
    [][\A i \in DOMAIN tasks \cap DOMAIN tasks' :
          /\ tasks'[i].id = tasks[i].id
          /\ tasks'[i].user_email = tasks[i].user_email
          /\ tasks[i].id = i]_vars

C6_Witness ==
    /\ req.kind = "update"
    /\ resp.status = 200
    /\ req.body.user_email # Absent
    /\ req.body.user_email # tasks[req.id].user_email

\* The filters of a list request, as the interface states them.
MatchesQuery(task, user, q) ==
    /\ task.user_email = user
    /\ q.completed = "true" => task.is_completed
    /\ q.completed = "false" => ~task.is_completed
    /\ q.priority \in PriorityEnum => task.priority = q.priority
    /\ q.date_from \in Days => task.created_at >= q.date_from * DayLen
    /\ q.date_to \in Days => task.created_at < (q.date_to + 1) * DayLen

Matching(user, q) == {i \in DOMAIN tasks : MatchesQuery(tasks[i], user, q)}

C10_SubTokenIsAccepted ==
    (/\ req.kind # "none"
     /\ req.token.sig = "good"
     /\ req.token.exp > now
     /\ req.token.sub \in users)
    => resp.status # 401

\* C11: a request whose well signed token has its exp in the past is answered
\* 401 TOKEN_EXPIRED, a request whose token fails validation in any other way
\* (signature, structure, algorithm) 401 TOKEN_INVALID, whatever its exp, and
\* the resolver lets the exception of the codec through as it is.
C11_DecodeFailureKinds ==
    req.kind # "none" =>
      /\ (req.token.sig = "good" /\ req.token.exp < now)
           => /\ raised = TokenExpiredException("Token has expired")
              /\ resp.status = 401
              /\ resp.code = "TOKEN_EXPIRED"
      /\ req.token.sig # "good"
           => /\ raised = TokenInvalidException("Could not validate credentials")
              /\ resp.status = 401
              /\ resp.code = "TOKEN_INVALID"

C11_Witness ==
    /\ req.kind # "none"
    /\ req.token.sig = "good"
    /\ req.token.exp < now
    /\ req.token.email \in users
    /\ resp.code = "TOKEN_EXPIRED"
    /\ tasks # <<>>

\* The fixed (status, code) of each classified failure kind.
StatusOf(cls) ==
    CASE cls = "TokenInvalidException" -> 401
      [] cls = "TokenExpiredException" -> 401
      [] cls = "UserNotFoundException" -> 404
      [] cls = "TaskNotFoundException" -> 404
      [] cls = "ValidationException" -> 422
      [] cls = "DatabaseException" -> 500

CodeOf(cls) ==
    CASE cls = "TokenInvalidException" -> "TOKEN_INVALID"
      [] cls = "TokenExpiredException" -> "TOKEN_EXPIRED"
      [] cls = "UserNotFoundException" -> "USER_NOT_FOUND"
      [] cls = "TaskNotFoundException" -> "TASK_NOT_FOUND"
      [] cls = "ValidationException" -> "VALIDATION_ERROR"
      [] cls = "DatabaseException" -> "DATABASE_ERROR"

GenericCodes == {"INTERNAL_ERROR"} \cup {"HTTP_" \o ToString(st) : st \in 100..599}

\* C12: a request in which an exception of one of the six typed kinds is raised
\* is answered with the status and code of that kind, whatever the endpoint,
\* the caller and the message, never with a code HTTP_{status} or
\* INTERNAL_ERROR.
C12_TypedFailureHasOwnPair ==
    raised.cls \in DomainExceptions =>
      /\ resp.status = StatusOf(raised.cls)
      /\ resp.code = CodeOf(raised.cls)
      /\ resp.code \notin GenericCodes

C12_Witness ==
    /\ raised.cls = "DatabaseException"
    /\ req.kind = "toggle"
    /\ resp.status = 500
    /\ resp.code = "DATABASE_ERROR"
    /\ tasks # <<>>

\* The classes with a handler of their own, or under HTTPException.
Classified ==
    DomainExceptions \cup {"HTTPException", "StarletteHTTPException", "RequestValidationError"}

\* What every unclassified error is answered with.
GenericInternalError ==
    [status |-> 500, code |-> "INTERNAL_ERROR", message |-> "An internal error occurred",
     message_id |-> 0, tasks |-> <<>>, total_count |-> -1]

\* C13: a request in which an error of no classified kind is raised is answered
\* with one fixed response, 500 INTERNAL_ERROR and the generic message, so
\* nothing of the error's own message is in it.
C13_UnclassifiedIsGeneric ==
    (raised # NoExc /\ raised.cls \notin Classified) => resp = GenericInternalError

C13_Witness ==
    /\ raised.cls = "OperationalError"
    /\ raised.detail = "m2"
    /\ resp.code = "INTERNAL_ERROR"
    /\ resp.message # raised.detail

\* The ids given to tasks that are stored no longer.
Deleted == {i \in 1..(nextId - 1) : i \notin DOMAIN tasks}

\* C14: a successful delete takes the caller's task out of the store; an id
\* taken out never comes back; a get, update, toggle or delete on such an id
\* by any authenticated user is answered 404 TASK_NOT_FOUND, and no list
\* returns a task under it.
C14_DeleteIsPermanent ==
    [][/\ (Served /\ req'.kind = "delete" /\ resp'.status = 200)
            => /\ req'.id \in DOMAIN tasks
               /\ tasks[req'.id].user_email = req'.token.email
               /\ req'.id \notin DOMAIN tasks'
               /\ \A i \in DOMAIN tasks \ {req'.id} :
                     i \in DOMAIN tasks' /\ tasks'[i] = tasks[i]
       /\ \A i \in Deleted : i \notin DOMAIN tasks'
       /\ (/\ Served
           /\ Authenticated
           /\ req'.kind \in {"get", "update", "delete", "toggle"}
           /\ req'.id \in Deleted)
            => resp' = NotFound404(req'.id)
       /\ (Served /\ req'.kind = "list" /\ resp'.status = 200)
            => \A k \in 1..Len(resp'.tasks) : resp'.tasks[k].id \notin Deleted]_vars

C14_Witness ==
    /\ req.kind \in {"get", "update", "toggle", "delete"}
    /\ req.id \in Deleted
    /\ req.token.email \in users
    /\ resp.code = "TASK_NOT_FOUND"
    /\ \E i \in DOMAIN tasks : tasks[i].user_email = req.token.email

\* C15: a successful toggle stores the negation of is_completed, completed_at
\* at the time of the toggle when the task is now complete and absent when it
\* is not, updated_at, and nothing else: the other fields and the other tasks
\* stay, and the response is the stored task.
C15_ToggleFlipsAndStamps ==
    [][(Served /\ req'.kind = "toggle" /\ resp'.status = 200)
       => (/\ req'.id \in DOMAIN tasks
           /\ DOMAIN tasks' = DOMAIN tasks
           /\ \A i \in DOMAIN tasks \ {req'.id} : tasks'[i] = tasks[i]
           /\ resp'.tasks = <<tasks'[req'.id]>>
           /\ LET old == tasks[req'.id]
                  new == tasks'[req'.id]
              IN /\ old.user_email = req'.token.email
                 /\ new.is_completed = ~old.is_completed
                 /\ new.is_completed => new.completed_at = now
                 /\ ~new.is_completed => new.completed_at = NoTime
                 /\ new.id = old.id
                 /\ new.user_email = old.user_email
                 /\ new.title = old.title
                 /\ new.description = old.description
                 /\ new.priority = old.priority
                 /\ new.due_date = old.due_date
                 /\ new.created_at = old.created_at)]_vars

C15_Witness ==
    /\ req.kind = "toggle"
    /\ resp.status = 200
    /\ tog.id = req.id
    /\ tog.is_completed
    /\ tog.completed_at # NoTime
    /\ ~tasks[req.id].is_completed
    /\ tasks[req.id].completed_at = NoTime
    /\ tasks[req.id].description # Null
    /\ tasks[req.id].due_date # NoTime

\* C16: the clock going forward only, every stored task has updated_at at or
\* after created_at, created_at stays what it was at the create, and a
\* successful update (its payload empty or not) or toggle leaves updated_at at
\* the time of the request.
C16_UpdatedAtFollowsClock ==
    [][/\ now' >= now
       /\ \A i \in DOMAIN tasks' : tasks'[i].updated_at >= tasks'[i].created_at
       /\ \A i \in DOMAIN tasks \cap DOMAIN tasks' :
             tasks'[i].created_at = tasks[i].created_at
       /\ (Served /\ req'.kind = "create" /\ resp'.status = 200)
            => resp'.tasks[1].created_at = now
       /\ (Served /\ req'.kind \in {"update", "toggle"} /\ resp'.status = 200)
            => tasks'[req'.id].updated_at = now]_vars

C16_Witness ==
    /\ req.kind = "update"
    /\ resp.status = 200
    /\ req.body = NoBody
    /\ tasks[req.id].updated_at = now
    /\ tasks[req.id].created_at < now

C18_StoredFieldsWellFormed ==
    \A i \in DOMAIN tasks :
      /\ tasks[i].title \notin {Null, Absent}
      /\ TitleLen(tasks[i].title) <= TitleMaxLength
      /\ tasks[i].priority \in PriorityEnum
      /\ tasks[i].is_completed \in BOOLEAN

\* C19: a session is open exactly while its request is being served: the
\* request that ends, with a result, a domain failure or an unexpected error,
\* leaves none behind, so with no request in flight no session is open.
C19_SessionsReleased ==
    /\ (Main \in sessions) <=> ~Idle
    /\ \A p \in Slots : (p \in sessions) <=> (procs[p].pc # "idle")
    /\ (Idle /\ Quiet) => sessions = {}

C19_Witness ==
    \E p, q \in Slots :
      /\ procs[p].pc = "done"
      /\ procs[p].raised.cls = "StaleDataError"
      /\ procs[p].resp.status = 500
      /\ procs[q].pc = "idle"
      /\ Idle
      /\ procs[p].id \notin DOMAIN tasks
      /\ sessions = {p}

\* A toggle of request p that has committed.
Committed(p) ==
    /\ procs[p].kind = "toggle"
    /\ procs[p].pc \in {"committed", "done"}
    /\ procs[p].raised = NoExc

\* Two committed toggles that read the same is_completed leave its negation.
FlippedOnce ==
    \A p, q \in Slots :
      (/\ p # q
       /\ Committed(p)
       /\ Committed(q)
       /\ procs[p].id = procs[q].id
       /\ procs[p].id \in DOMAIN tasks
       /\ procs[p].snap.is_completed = procs[q].snap.is_completed)
      => tasks[procs[p].id].is_completed = ~procs[p].snap.is_completed

\* C20: the commit of a toggle stores the is_completed and completed_at that
\* the request computed from the row it read, whatever was committed since it
\* read, and touches nothing else but updated_at; so two toggles that read the
\* same is_completed leave the task at the negation of that value.
C20_LastWriteWins ==
    [][/\ \A p \in Slots :
            (/\ procs[p].pc = "read"
             /\ procs[p].kind = "toggle"
             /\ procs'[p].pc = "committed")
            => LET id == procs[p].id
               IN /\ tasks'[id].is_completed = ~procs[p].snap.is_completed
                  /\ tasks'[id].completed_at
                       = (IF procs[p].snap.is_completed THEN NoTime
                          ELSE procs[p].pending.updated_at)
                  /\ tasks'[id].title = tasks[id].title
                  /\ tasks'[id].user_email = tasks[id].user_email
                  /\ tasks'[id].created_at = tasks[id].created_at
                  /\ \A i \in DOMAIN tasks \ {id} : tasks'[i] = tasks[i]
       /\ FlippedOnce']_vars

C20_Witness ==
    \E p, q \in Slots :
      /\ p # q
      /\ procs[p].pc = "done"
      /\ procs[q].pc = "done"
      /\ procs[p].kind = "toggle"
      /\ procs[q].kind = "toggle"
      /\ procs[p].resp.status = 200
      /\ procs[q].resp.status = 200
      /\ procs[p].id = procs[q].id
      /\ procs[p].snap = procs[q].snap
      /\ ~procs[p].snap.is_completed
      /\ tasks[procs[p].id].is_completed

\* The classes get_current_user raises.
AuthFailures ==
    {"TokenInvalidException", "TokenExpiredException", "UserNotFoundException"}

\* C21: a request of any of the six endpoints whose authentication fails (bad or
\* expired token, no identity claim, identity without a users row) ends in one
\* of the three authentication failures, leaves the task store and the id
\* counter as they were, and is answered without any task data.
C21_AuthFailureTouchesNothing ==
    [][(Served /\ ~Authenticated)
       => /\ raised'.cls \in AuthFailures
          /\ resp' = Handle(raised')
          /\ resp'.status \in {401, 404}
          /\ resp'.tasks = <<>>
          /\ resp'.total_count = -1
          /\ tasks' = tasks
          /\ nextId' = nextId]_vars

C21_Witness ==
    /\ req.kind = "update"
    /\ req.token.sig = "good"
    /\ req.token.exp <= now
    /\ raised.cls = "TokenExpiredException"
    /\ resp.status = 401
    /\ resp.tasks = <<>>
    /\ \E i \in DOMAIN tasks : tasks[i].user_email = req.token.email

\* C22: a get or a list, whatever its outcome, leaves the task store as it was;
\* an update, delete or toggle that fails with TaskNotFound leaves every task
\* of every owner as it was, and removes or adds none.
C22_ReadsAndNotFoundChangeNothing ==
    [][Served
       => /\ req'.kind \in {"get", "list"} => (tasks' = tasks /\ nextId' = nextId)
          /\ (/\ req'.kind \in {"update", "delete", "toggle"}
              /\ raised'.cls = "TaskNotFoundException")
             => /\ DOMAIN tasks' = DOMAIN tasks
                /\ \A i \in DOMAIN tasks : tasks'[i] = tasks[i]
                /\ nextId' = nextId]_vars

C22_Witness ==
    /\ req.kind = "toggle"
    /\ raised.cls = "TaskNotFoundException"
    /\ resp.code = "TASK_NOT_FOUND"
    /\ req.id \in DOMAIN tasks
    /\ tasks[req.id].user_email # req.token.email
    /\ \E i \in DOMAIN tasks : tasks[i].user_email = req.token.email

\* An update or toggle of request p that read its row before a delete of the
\* row committed, and has not committed yet.
ReadBeforeDelete(p) ==
    /\ procs[p].pc = "read"
    /\ procs[p].kind \in {"update", "toggle"}
    /\ procs[p].id \notin DOMAIN tasks

\* C23: a task that was deleted is in the store at no later time, whatever
\* requests overlap; in particular the commit of an update or toggle that read
\* the task before the delete committed writes nothing, so the task is absent
\* once both requests have finished.
C23_DeletedIsNotBroughtBack ==
    [][/\ \A i \in Deleted : i \notin DOMAIN tasks'
       /\ \A p \in Slots :
            (ReadBeforeDelete(p) /\ procs'[p] # procs[p])
            => /\ tasks' = tasks
               /\ procs'[p].resp.tasks = <<>>]_vars

C23_Witness ==
    \E p, q \in Slots :
      /\ p # q
      /\ procs[p].pc = "done"
      /\ procs[p].kind = "update"
      /\ procs[p].raised.cls = "StaleDataError"
      /\ procs[q].pc = "done"
      /\ procs[q].kind = "delete"
      /\ procs[q].resp.status = 200
      /\ procs[q].id = procs[p].id
      /\ procs[p].id \in Deleted

====
